---- MODULE Spec2Model ----
(***************************************************************************)
(* Convex_Optimization_Price_Model: the PricingModel object of             *)
(* src/src/core/optimizer.py and the Dataset object of                     *)
(* src/src/core/dataset_operations.py as state machines.                   *)
(*                                                                         *)
(* Numbers are exact rationals <<n, d>> with d > 0 in lowest terms.        *)
(* Python's None is the empty tuple; a present value x is <<x>>.           *)
(* A call's outcome is kept in ret: [exc |-> the exception type that left  *)
(* the call ("" when it returned), val |-> the value returned].            *)
(***************************************************************************)
EXTENDS Integers, Sequences, FiniteSets, TLC

VARIABLES
    \* ---- PricingModel (src/src/core/optimizer.py) ----
    alpha, beta, max_capacity, max_price, cost_per_unit, min_profit_margin,
    min_price, constraints, problem, current_model_type,
    price_value, problem_status, problem_value,
    \* ---- Dataset (src/src/core/dataset_operations.py) ----
    prices, demands, revenue, dataset, hull_points, hull_revenue, curvature,
    previous_revenue_before_nonconvex, previous_demands_before_nonconvex,
    \* ---- the calls made so far, the object before each of them, the last outcome
    hist, trail, ret

pmVars == <<alpha, beta, max_capacity, max_price, cost_per_unit, min_profit_margin,
            min_price, constraints, problem, current_model_type,
            price_value, problem_status, problem_value>>

dsVars == <<prices, demands, revenue, dataset, hull_points, hull_revenue, curvature,
            previous_revenue_before_nonconvex, previous_demands_before_nonconvex>>

vars == <<pmVars, dsVars, hist, trail, ret>>

\* The object as it was before the last call.
pre == trail[Len(trail)]

-----------------------------------------------------------------------------
(* Bounds of the model.                                                    *)

MaxCalls == 4
MaxOps == 3
MaxPts == 5

-----------------------------------------------------------------------------
(* Python values.                                                          *)

None == <<>>
Some(x) == <<x>>
IsNone(o) == o = <<>>
Val(o) == o[1]

Returned(v) == [exc |-> "", val |-> v]
Raised(e) == [exc |-> e, val |-> None]

-----------------------------------------------------------------------------
(* Exact rational arithmetic (the floats of the program, without rounding). *)

Abs(n) == IF n < 0 THEN -n ELSE n

RECURSIVE Gcd(_, _)
Gcd(a, b) == IF b = 0 THEN a ELSE Gcd(b, a % b)

Rat(n, d) ==
    LET s == IF d < 0 THEN -1 ELSE 1
        g == Gcd(Abs(n), Abs(d))
    IN  <<(s * n) \div g, (s * d) \div g>>

RInt(n) == <<n, 1>>
RAdd(a, b) == Rat(a[1] * b[2] + b[1] * a[2], a[2] * b[2])
RNeg(a) == <<-a[1], a[2]>>
RSub(a, b) == RAdd(a, RNeg(b))
RMul(a, b) == Rat(a[1] * b[1], a[2] * b[2])
RDiv(a, b) == Rat(a[1] * b[2], a[2] * b[1])
RLe(a, b) == a[1] * b[2] <= b[1] * a[2]
RLt(a, b) == a[1] * b[2] < b[1] * a[2]
RMax(a, b) == IF RLe(a, b) THEN b ELSE a
RMin(a, b) == IF RLe(a, b) THEN a ELSE b
RSign(a) == IF a[1] > 0 THEN 1 ELSE IF a[1] < 0 THEN -1 ELSE 0
PosInf == <<1, 0>>
NegInf == <<-1, 0>>

Last(s) == s[Len(s)]

-----------------------------------------------------------------------------
(* Configuration values, src/src/config.py, and the values the model tries. *)

ALPHA == 1500
BETA == 2
MAX_PRICE == 600
MAX_CAPACITY == 1200
COST_PER_UNIT == 100
MIN_PROFIT_MARGIN == <<1, 5>>

Alphas == {4, ALPHA}
Betas == {-1, 0, BETA}
MaxPrices == {1, MAX_PRICE}
Capacities == {3, MAX_CAPACITY}
Costs == {1, COST_PER_UNIT}

-----------------------------------------------------------------------------
(* PricingModel: the cvxpy problem.                                        *)

\* cp.Problem(objective, constraints); the objective is a1*p + a2*p^2 + a3*p^3.
Problem(sense, a1, a2, a3, cons) ==
    [sense |-> sense, a1 |-> a1, a2 |-> a2, a3 |-> a3, constraints |-> cons]

\* The constraint list built once by __init__, with the numbers of that moment.
ConstraintList(a, b, cap, maxp, minp) ==
    [alpha |-> a, beta |-> b, max_capacity |-> cap, max_price |-> maxp, min_price |-> minp]

\* Curvature of a1*p + a2*p^2 + a3*p^3 for the positive variable p under the
\* DCP composition rules: a sum is convex (concave) when every term is.
ExprConvex(a2, a3) == RSign(a2) >= 0 /\ RSign(a3) >= 0
ExprConcave(a2, a3) == RSign(a2) <= 0 /\ RSign(a3) <= 0

ExprCurvature(a2, a3) ==
    IF ExprConvex(a2, a3) /\ ExprConcave(a2, a3) THEN "AFFINE"
    ELSE IF ExprConvex(a2, a3) THEN "CONVEX"
    ELSE IF ExprConcave(a2, a3) THEN "CONCAVE"
    ELSE "UNKNOWN"

\* problem.is_dcp(): Maximize needs a concave objective, Minimize a convex one
\* (the constraints are affine).
is_dcp(pr) ==
    IF pr.sense = "Maximize" THEN ExprConcave(pr.a2, pr.a3) ELSE ExprConvex(pr.a2, pr.a3)

\* The feasible region of the constraint list: demand <= capacity,
\* price <= max_price, price >= min_price, demand >= 0, with
\* demand = alpha - beta*price and price a nonnegative variable.
LowerBounds(c) ==
    {RInt(0), c.min_price}
        \cup (IF RSign(c.beta) > 0 THEN {RDiv(RSub(c.alpha, c.max_capacity), c.beta)} ELSE {})
        \cup (IF RSign(c.beta) < 0 THEN {RDiv(c.alpha, c.beta)} ELSE {})

UpperBounds(c) ==
    {c.max_price}
        \cup (IF RSign(c.beta) > 0 THEN {RDiv(c.alpha, c.beta)} ELSE {})
        \cup (IF RSign(c.beta) < 0 THEN {RDiv(RSub(c.alpha, c.max_capacity), c.beta)} ELSE {})

Lo(c) == CHOOSE x \in LowerBounds(c) : \A y \in LowerBounds(c) : RLe(y, x)
Hi(c) == CHOOSE x \in UpperBounds(c) : \A y \in UpperBounds(c) : RLe(x, y)

Feasible(c) ==
    /\ RLe(Lo(c), Hi(c))
    /\ RSign(c.beta) = 0 => (RLe(c.alpha, c.max_capacity) /\ RSign(c.alpha) >= 0)

Clamp(x, lo, hi) == RMax(lo, RMin(x, hi))

ObjectiveAt(pr, p) == RAdd(RMul(pr.a1, p), RMul(pr.a2, RMul(p, p)))

\* The optimal prices of a DCP problem over a non-empty region [lo, hi]:
\* the vertex of the parabola clamped to the region, or an end of the region
\* for a linear objective (either end when the objective is constant).
Optima(pr) ==
    LET lo == Lo(pr.constraints)
        hi == Hi(pr.constraints)
        up == IF pr.sense = "Maximize" THEN RSign(pr.a1) ELSE -RSign(pr.a1)
    IN  IF RSign(pr.a2) # 0
        THEN {Clamp(RDiv(RNeg(pr.a1), RMul(RInt(2), pr.a2)), lo, hi)}
        ELSE IF up > 0 THEN {hi} ELSE IF up < 0 THEN {lo} ELSE {lo, hi}

\* problem.solve(): raises DCPError on a problem that is not DCP; the solver
\* may fail with SolverError; otherwise it stores status, value and the
\* variable's value (None and +-inf when the region is empty).
ProblemSolve(pr) ==
    IF ~is_dcp(pr) THEN {[exc |-> "DCPError", status |-> None, value |-> None, price |-> None]}
    ELSE {[exc |-> "SolverError", status |-> None, value |-> None, price |-> None]}
         \cup (IF Feasible(pr.constraints)
                THEN {[exc |-> "", status |-> Some("optimal"),
                       value |-> Some(ObjectiveAt(pr, p)), price |-> Some(p)]
                      : p \in Optima(pr)}
                ELSE {[exc |-> "", status |-> Some("infeasible"),
                       value |-> Some(IF pr.sense = "Maximize" THEN NegInf ELSE PosInf),
                       price |-> None]})

-----------------------------------------------------------------------------
(* PricingModel: construction.                                             *)

\* The PricingModel object as one value.
PM ==
    [alpha |-> alpha, beta |-> beta, max_capacity |-> max_capacity,
     max_price |-> max_price, cost_per_unit |-> cost_per_unit,
     min_profit_margin |-> min_profit_margin, min_price |-> min_price,
     constraints |-> constraints, problem |-> problem,
     current_model_type |-> current_model_type, price_value |-> price_value,
     problem_status |-> problem_status, problem_value |-> problem_value]

\* No Dataset object exists in the PricingModel specification.
NoDataset ==
    /\ prices = <<>> /\ demands = <<>> /\ revenue = None /\ dataset = <<>>
    /\ hull_points = None /\ hull_revenue = None /\ curvature = None
    /\ previous_revenue_before_nonconvex = None
    /\ previous_demands_before_nonconvex = None

\* PricingModel.__init__
PricingModelInit ==
    /\ alpha \in {RInt(a) : a \in Alphas}
    /\ beta \in {RInt(b) : b \in Betas}
    /\ max_capacity \in {RInt(c) : c \in Capacities}
    /\ max_price \in {RInt(m) : m \in MaxPrices}
    /\ cost_per_unit \in {RInt(c) : c \in Costs}
    /\ min_profit_margin = MIN_PROFIT_MARGIN
    /\ min_price = RDiv(cost_per_unit, RSub(RInt(1), min_profit_margin))
    /\ price_value = None
    /\ problem = None
    /\ problem_status = None
    /\ problem_value = None
    /\ constraints = ConstraintList(alpha, beta, max_capacity, max_price, min_price)
    /\ current_model_type = None

Init ==
    /\ PricingModelInit
    /\ NoDataset
    /\ hist = <<>>
    /\ trail = <<>>
    /\ ret = Returned(None)

\* One more call on the object: the state before it and its name are recorded.
Call(name) ==
    /\ Len(hist) < MaxCalls
    /\ hist' = Append(hist, name)
    /\ trail' = Append(trail, PM)

-----------------------------------------------------------------------------
(* PricingModel: the build calls.                                          *)

\* A new cp.Problem replaces the stored one; the solver's results belong to
\* the problem object, so a new problem has none.
Store(pr, type) ==
    /\ problem' = Some(pr)
    /\ problem_status' = None
    /\ problem_value' = None
    /\ current_model_type' = Some(type)
    /\ UNCHANGED <<alpha, beta, max_capacity, max_price, cost_per_unit,
                   min_profit_margin, min_price, constraints, price_value>>

ConcaveProblem == Problem("Maximize", alpha, RNeg(beta), RInt(0), constraints)
\* Mutant: the convex objective keeps the sign of the alpha term.
ConvexProblemAlphaNotNegated == Problem("Minimize", alpha, beta, RInt(0), constraints)

ConvexProblem == Problem("Minimize", RNeg(alpha), beta, RInt(0), constraints)
NonconvexProblem == Problem("Maximize", alpha, RNeg(beta), <<1, 1000>>, constraints)

_build_concave_model ==
    /\ Call("_build_concave_model")
    /\ Store(ConcaveProblem, "concave")
    /\ ret' = Returned("revenue")
    /\ UNCHANGED dsVars

BuildConvexBody == Store(ConvexProblem, "convex")

build_convex_model ==
    /\ Call("build_convex_model")
    /\ BuildConvexBody
    /\ ret' = Returned("g_of_R")
    /\ UNCHANGED dsVars

build_nonconvex_model ==
    /\ Call("build_nonconvex_model")
    /\ Store(NonconvexProblem, "nonconvex_nonconcave")
    /\ ret' = Returned("revenue")
    /\ UNCHANGED dsVars

\* Mutant: the restore stores the convex problem but leaves the state name.
restore_convex_model_keeps_type ==
    /\ Call("restore_convex_model")
    /\ problem' = Some(ConvexProblem)
    /\ problem_status' = None
    /\ problem_value' = None
    /\ ret' = Returned(None)
    /\ UNCHANGED <<alpha, beta, max_capacity, max_price, cost_per_unit, min_profit_margin,
                   min_price, constraints, price_value, current_model_type, dsVars>>

restore_convex_model ==
    /\ Call("restore_convex_model")
    /\ BuildConvexBody
    /\ ret' = Returned(None)
    /\ UNCHANGED dsVars

-----------------------------------------------------------------------------
(* PricingModel: solve.                                                    *)

\* Mutant: the handler catches the solver's own error only.
ExceptSolverError(e) == e = "SolverError"

\* `except Exception as e`: every exception raised in the try block is caught.
ExceptException(e) == TRUE

Failed == <<None, None, None, Some("Failed")>>

\* The handler of solve_concave / solve_convex.
Handler(e) == IF ExceptException(e) THEN Returned(Failed) ELSE Raised(e)

\* Mutant: a solve that fails drops the stored problem.
SolveBodyDropsProblem ==
    IF IsNone(problem)
    THEN /\ ret' = Returned(Failed)
         /\ UNCHANGED pmVars
    ELSE \E o \in ProblemSolve(Val(problem)) :
           IF o.exc # "" \/ IsNone(o.price)
           THEN /\ ret' = Returned(Failed)
                /\ problem' = None
                /\ current_model_type' = None
                /\ UNCHANGED <<alpha, beta, max_capacity, max_price, cost_per_unit,
                               min_profit_margin, min_price, constraints, price_value,
                               problem_status, problem_value>>
           ELSE /\ price_value' = o.price
                /\ problem_status' = o.status
                /\ problem_value' = o.value
                /\ UNCHANGED <<alpha, beta, max_capacity, max_price, cost_per_unit,
                               min_profit_margin, min_price, constraints, problem,
                               current_model_type>>
                /\ ret' = Returned(<<o.price, o.value,
                                     Some(RSub(alpha, RMul(beta, Val(o.price)))), o.status>>)

\* The try block: self.problem.solve(); final_demand = alpha - beta*price.value;
\* return [price.value, problem.value, final_demand, problem.status].
SolveBody ==
    IF IsNone(problem)
    THEN \* None has no attribute solve
         /\ ret' = Handler("AttributeError")
         /\ UNCHANGED pmVars
    ELSE \E o \in ProblemSolve(Val(problem)) :
           IF o.exc # ""
           THEN /\ ret' = Handler(o.exc)
                /\ UNCHANGED pmVars
           ELSE /\ price_value' = o.price
                /\ problem_status' = o.status
                /\ problem_value' = o.value
                /\ UNCHANGED <<alpha, beta, max_capacity, max_price, cost_per_unit,
                               min_profit_margin, min_price, constraints, problem,
                               current_model_type>>
                /\ ret' = IF IsNone(o.price)
                          THEN \* beta * None
                               Handler("TypeError")
                          ELSE Returned(<<o.price, o.value,
                                          Some(RSub(alpha, RMul(beta, Val(o.price)))),
                                          o.status>>)

solve_concave ==
    /\ Call("solve_concave")
    /\ SolveBody
    /\ UNCHANGED dsVars

solve_convex ==
    /\ Call("solve_convex")
    /\ SolveBody
    /\ UNCHANGED dsVars

-----------------------------------------------------------------------------
(* PricingModel: diagnostics.                                              *)

\* The result of check_convexity_curve_dcp: revenue = alpha*price -
\* beta*power(price, 2) is rebuilt from the attributes, whatever the stored
\* problem is; only is_dcp_compliant reads the stored problem pr.
CurveInfo(b, pr) ==
    LET c == ExprCurvature(RNeg(b), RInt(0))
    IN  Returned([curvature |-> c,
                  is_dcp_compliant |-> IF IsNone(pr) THEN FALSE ELSE is_dcp(Val(pr)),
                  conclusion |-> IF c = "CONCAVE" THEN "Concave"
                                 ELSE IF c = "CONVEX" THEN "Convex" ELSE ""])

check_convexity_curve_dcp ==
    /\ Call("check_convexity_curve_dcp")
    /\ ret' = CurveInfo(beta, problem)
    /\ UNCHANGED <<pmVars, dsVars>>

\* Mutant: the sign of the second derivative is lost.
hessian_sign_flipped(b) == RMul(RInt(2), b)

\* hessian = -2 * self.beta
hessian_of(b) == RMul(RInt(-2), b)

\* The result of check_convexity_hessian; `result` is bound only when
\* hessian # 0, so the return statement raises for hessian = 0.
HessianInfo(b) ==
    LET hessian == hessian_of(b)
    IN  IF RSign(hessian) = 0
        THEN Raised("UnboundLocalError")
        ELSE Returned([hessian_value |-> hessian,
                       result |-> IF RSign(hessian) < 0 THEN "CONCAVE" ELSE "CONVEX",
                       is_concave |-> RSign(hessian) < 0,
                       is_convex |-> RSign(hessian) > 0,
                       suitable_for_maximization |-> RSign(hessian) < 0])

check_convexity_hessian ==
    /\ Call("check_convexity_hessian")
    /\ ret' = HessianInfo(beta)
    /\ UNCHANGED <<pmVars, dsVars>>

Next ==
    \/ _build_concave_model
    \/ build_convex_model
    \/ build_nonconvex_model
    \/ restore_convex_model
    \/ solve_concave
    \/ solve_convex
    \/ check_convexity_curve_dcp
    \/ check_convexity_hessian

Spec == Init /\ [][Next]_vars

-----------------------------------------------------------------------------
(* Claims about the PricingModel.                                          *)

Builds == {"_build_concave_model", "build_convex_model", "build_nonconvex_model",
           "restore_convex_model"}
Solves == {"solve_concave", "solve_convex"}
Diagnostics == {"check_convexity_curve_dcp", "check_convexity_hessian"}

LastIs(S) == hist # <<>> /\ Last(hist) \in S

\* The state a build call names.
TypeNamedBy(call) ==
    IF call = "_build_concave_model" THEN "concave"
    ELSE IF call = "build_nonconvex_model" THEN "nonconvex_nonconcave"
    ELSE "convex"

\* The formulation a stored problem was constructed with.
ObjectiveKind(pr) ==
    IF RSign(pr.a3) # 0 THEN "nonconvex_nonconcave"
    ELSE IF pr.sense = "Minimize" THEN "convex"
    ELSE "concave"

BuildCalls == {i \in 1..Len(hist) : hist[i] \in Builds}
LastBuild == hist[CHOOSE i \in BuildCalls : \A j \in BuildCalls : j <= i]

\* C1: the model state is Unbuilt (current_model_type None, no problem) until
\* a build call happens, afterwards it is the state named by the most recent
\* build call and the stored problem is of that call's formulation over the
\* object's constraint list; solve and the diagnostics leave both as they were.
C1_StateIsLastBuild ==
    /\ BuildCalls = {} => (IsNone(current_model_type) /\ IsNone(problem))
    /\ BuildCalls # {} =>
         /\ current_model_type = Some(TypeNamedBy(LastBuild))
         /\ ~IsNone(problem)
         /\ ObjectiveKind(Val(problem)) = TypeNamedBy(LastBuild)
         /\ Val(problem).constraints = constraints
    /\ LastIs(Solves \cup Diagnostics) =>
         (current_model_type = pre.current_model_type /\ problem = pre.problem)

C1_Witness ==
    /\ hist = <<"build_nonconvex_model", "restore_convex_model", "solve_convex">>
    /\ current_model_type = Some("convex")
    /\ ObjectiveKind(Val(problem)) = "convex"

\* C2 (as claimed): solve on an unbuilt model leaves the call with an error;
\* it neither builds a problem nor returns a solve result.
C2_UnbuiltSolveFailsFast ==
    (LastIs(Solves) /\ IsNone(pre.problem)) => (ret.exc # "" /\ IsNone(problem))

Absent(v) == IsNone(v[1]) /\ IsNone(v[2]) /\ IsNone(v[3])
Present(v) == ~IsNone(v[1]) /\ ~IsNone(v[2]) /\ ~IsNone(v[3])

\* C3: solve on a built model never raises; its result has price, value and
\* demand all absent with a status other than optimal whenever the solver
\* threw or ended without an optimum (an empty feasible region included), and
\* all three present, with the solver's status, otherwise.
C3_SolveResultAllOrNothing ==
    (LastIs(Solves) /\ ~IsNone(pre.problem)) =>
        /\ ret.exc = ""
        /\ \/ Absent(ret.val) /\ ret.val[4] # Some("optimal")
           \/ Present(ret.val) /\ ret.val[4] = problem_status
        /\ problem_status # Some("optimal") => Absent(ret.val)
        /\ ~Feasible(Val(pre.problem).constraints) => Absent(ret.val)

C3_Witness ==
    /\ LastIs(Solves)
    /\ ~IsNone(pre.problem)
    /\ ~Feasible(Val(pre.problem).constraints)
    /\ problem_status = Some("infeasible")
    /\ ret = Returned(Failed)

SolveFailed == LastIs(Solves) /\ (ret.exc # "" \/ Absent(ret.val))

\* C10: a solve that fails leaves the stored problem, the model state, the
\* parameters and the constraint list as they were before the call.
C10_FailedSolveKeepsProblem ==
    SolveFailed =>
        /\ problem = pre.problem
        /\ current_model_type = pre.current_model_type
        /\ constraints = pre.constraints
        /\ <<alpha, beta, max_capacity, max_price, cost_per_unit, min_profit_margin, min_price>>
             = <<pre.alpha, pre.beta, pre.max_capacity, pre.max_price, pre.cost_per_unit,
                 pre.min_profit_margin, pre.min_price>>

\* A failed solve of the non-convex formulation, a rebuild, and a solve that succeeds.
C10_Witness ==
    /\ Len(hist) = 4
    /\ hist[1] = "build_nonconvex_model"
    /\ hist[2] \in Solves
    /\ hist[3] = "build_convex_model"
    /\ hist[4] = "solve_convex"
    /\ pre.problem_status = None
    /\ Present(ret.val)

-----------------------------------------------------------------------------
(* Dataset: numbers and geometry.                                          *)
(*                                                                         *)
(* A point of the (price, revenue) matrix is <<p, r>>, p an integer price  *)
(* and r a rational revenue.  A demand is Exact(d), a number given at      *)
(* construction, or OverEps(r, p), the quotient r / (p + 1e-9).            *)

PriceSet == 1..4
DemandSet == {0, 1, 3}
Amplitudes == {10}
FrequencyFactors == {2}

Exact(d) == <<"exact", d>>
OverEps(r, p) == IF r[1] = 0 THEN Exact(RInt(0)) ELSE <<"over_eps", r, p>>

\* a <= b + 1e-8
LeTol(a, b) ==
    \/ RLe(a, b)
    \/ LET d == RSub(a, b) IN d[2] \div d[1] >= 100000000

\* round(10 * sin(k / 2)) for k = 0, 1, 2, ...: the sine to one decimal.
SinTenths == <<5, 8, 10, 9, 6, 1, -4, -8, -10, -10, -7, -3, 2, 7, 9, 10>>

\* amplitude * np.sin(price / frequency_factor)
Perturbation(amplitude, p, frequency_factor) ==
    LET k == (2 * p) \div frequency_factor
    IN  IF k = 0 THEN RInt(0) ELSE Rat(amplitude * SinTenths[k], 10)

\* np.column_stack((prices, revenue))
column_stack(ps, rev) == [i \in 1..Len(ps) |-> <<ps[i], rev[i]>>]

\* Sign of the cross product (B - A) x (C - A).
Orient(A, B, C) ==
    RSign(RSub(RMul(RInt(B[1] - A[1]), RSub(C[2], A[2])),
               RMul(RSub(B[2], A[2]), RInt(C[1] - A[1]))))

\* Qhull builds a hull when the points are not all on one line (or fewer than 3).
HullComputable(S) ==
    /\ Cardinality(S) >= 3
    /\ LET A == CHOOSE x \in S : TRUE
           B == CHOOSE x \in S : x # A
       IN  \E C \in S : Orient(A, B, C) # 0

\* The extreme points of the hull: P is on the upper (lower) chain when no
\* other point has its price and a higher (lower) revenue and P is strictly
\* above (below) every chord of two points whose prices straddle its price.
OnChain(P, S, side) ==
    /\ \A Q \in S : (Q[1] = P[1] /\ Q # P) =>
            (IF side = 1 THEN RLt(Q[2], P[2]) ELSE RLt(P[2], Q[2]))
    /\ \A A \in S : A[1] < P[1] =>
            \A B \in S : B[1] > P[1] => Orient(A, B, P) = side

HullVertices(S) == {P \in S : OnChain(P, S, 1) \/ OnChain(P, S, -1)}

PtLess(P, Q) == P[1] < Q[1] \/ (P[1] = Q[1] /\ RLt(P[2], Q[2]))

RECURSIVE SortPts(_)
SortPts(V) ==
    IF V = {} THEN <<>>
    ELSE LET m == CHOOSE P \in V : \A Q \in V : Q = P \/ PtLess(P, Q)
         IN  <<m>> \o SortPts(V \ {m})

Swap(s, i) == [s EXCEPT ![i] = s[i + 1], ![i + 1] = s[i]]

\* points[hull.vertices][np.argsort(prices of the vertices)]: the vertices in
\* nondecreasing price; the order of two vertices of one price (the ends of a
\* vertical edge, at the lowest or the highest price) follows the order Qhull
\* lists them in and the sort's handling of ties, so both orders are possible.
SortedHulls(V) ==
    LET s == SortPts(V)
        n == Len(s)
        first == IF s[1][1] = s[2][1] THEN {s, Swap(s, 1)} ELSE {s}
    IN  first \cup {IF t[n - 1][1] = t[n][1] THEN Swap(t, n - 1) ELSE t : t \in first}

\* np.interp(x, xp, fp) with xp the prices and fp the revenues of hp:
\* j is the last index with xp[j] <= x.
interp(x, hp) ==
    LET n == Len(hp)
    IN  IF x > hp[n][1] THEN hp[n][2]
        ELSE IF x < hp[1][1] THEN hp[1][2]
        ELSE LET j == CHOOSE k \in 1..n :
                        hp[k][1] <= x /\ \A m \in (k + 1)..n : hp[m][1] > x
             IN  IF j = n \/ hp[j][1] = x THEN hp[j][2]
                 ELSE LET slope == RDiv(RSub(hp[j + 1][2], hp[j][2]),
                                        RInt(hp[j + 1][1] - hp[j][1]))
                      IN  RAdd(RMul(slope, RInt(x - hp[j][1])), hp[j][2])

-----------------------------------------------------------------------------
(* Dataset: the object and its methods, as functions from an object state  *)
(* to the set of outcomes [ds |-> the state afterwards, ret |-> the value  *)
(* returned or the exception raised].                                      *)

\* The Dataset object as one value.
DS ==
    [prices |-> prices, demands |-> demands, revenue |-> revenue, dataset |-> dataset,
     hull_points |-> hull_points, hull_revenue |-> hull_revenue, curvature |-> curvature,
     previous_revenue_before_nonconvex |-> previous_revenue_before_nonconvex,
     previous_demands_before_nonconvex |-> previous_demands_before_nonconvex]

Outcome(d, r) == [ds |-> d, ret |-> r]

Points(d) == {d.dataset[i] : i \in 1..Len(d.dataset)}

\* Dataset.__init__
NewDataset(ps, ds) ==
    LET rev == [i \in 1..Len(ps) |-> RInt(ps[i] * ds[i])]
    IN  [prices |-> ps,
         demands |-> [i \in 1..Len(ps) |-> Exact(RInt(ds[i]))],
         revenue |-> Some(rev),
         dataset |-> column_stack(ps, rev),
         hull_points |-> None, hull_revenue |-> None, curvature |-> None,
         previous_revenue_before_nonconvex |-> None,
         previous_demands_before_nonconvex |-> None]

\* Mutant: a failed hull computation clears the stored hull.
HullFailedClears(d) ==
    {Outcome([d EXCEPT !.hull_points = None, !.hull_revenue = None, !.curvature = None],
             Returned(None))}

\* ConvexHull(points) raises before anything is assigned; the handler prints
\* and returns None.
HullFailed(d) == {Outcome(d, Returned(None))}

\* Dataset.check_dataset_convexity_convex_hull
check_dataset_convexity_convex_hull(d) ==
    IF ~HullComputable(Points(d))
    THEN HullFailed(d)
    ELSE LET V == HullVertices(Points(d))
         IN  {LET hr == [i \in 1..Len(d.prices) |-> interp(d.prices[i], hp)]
                  d1 == [d EXCEPT !.hull_points = Some(hp), !.hull_revenue = Some(hr)]
              IN  IF IsNone(d.revenue)
                  THEN \* None <= array raises TypeError; the handler returns None
                       Outcome(d1, Returned(None))
                  ELSE LET is_convex ==
                               \A i \in 1..Len(d.prices) : LeTol(Val(d.revenue)[i], hr[i])
                       IN  Outcome([d1 EXCEPT !.curvature =
                                        Some(IF is_convex THEN "CONVEX" ELSE "NOT CONVEX")],
                                   Returned(Some([is_convex |-> is_convex,
                                                  n_vertices |-> Cardinality(V),
                                                  n_points |-> Len(d.dataset)])))
              : hp \in SortedHulls(V)}

\* self.demands = self.revenue / (self.prices + 1e-9)
DemandsOf(rev, ps) == [i \in 1..Len(ps) |-> OverEps(rev[i], ps[i])]

\* Mutant: the hull is not recomputed after the revenue is replaced.
make_convex_without_recheck(d) ==
    UNION {
      LET d1 == o.ds
          d2 == [d1 EXCEPT !.revenue = d1.hull_revenue]
      IN  IF IsNone(d2.revenue)
          THEN {Outcome(d2, Raised("TypeError"))}
          ELSE {Outcome([d2 EXCEPT !.demands = DemandsOf(Val(d2.revenue), d2.prices),
                                   !.dataset = column_stack(d2.prices, Val(d2.revenue))],
                        Returned([status |-> "revenue replaced with convex hull",
                                  points_updated |-> Len(d.prices)]))}
      : o \in (IF IsNone(d.hull_points) \/ IsNone(d.hull_revenue)
               THEN check_dataset_convexity_convex_hull(d)
               ELSE {Outcome(d, Returned(None))}) }

\* Dataset.make_convex
make_convex(d) ==
    UNION {
      LET d1 == o.ds
          d2 == [d1 EXCEPT !.revenue = d1.hull_revenue]
      IN  IF IsNone(d2.revenue)
          THEN \* None / array
               {Outcome(d2, Raised("TypeError"))}
          ELSE LET d3 == [d2 EXCEPT !.demands = DemandsOf(Val(d2.revenue), d2.prices),
                                    !.dataset = column_stack(d2.prices, Val(d2.revenue))]
               IN  {Outcome(c.ds, Returned([status |-> "revenue replaced with convex hull",
                                            points_updated |-> Len(d.prices)]))
                    : c \in check_dataset_convexity_convex_hull(d3)}
      : o \in (IF IsNone(d.hull_points) \/ IsNone(d.hull_revenue)
               THEN check_dataset_convexity_convex_hull(d)
               ELSE {Outcome(d, Returned(None))}) }

\* Dataset.make_nonconvex
make_nonconvex(d, amplitude, frequency_factor) ==
    IF IsNone(d.revenue)
    THEN \* None has no attribute copy
         {Outcome(d, Raised("AttributeError"))}
    ELSE LET rev == [i \in 1..Len(d.prices) |->
                        RAdd(Val(d.revenue)[i],
                             Perturbation(amplitude, d.prices[i], frequency_factor))]
             d1 == [d EXCEPT !.previous_revenue_before_nonconvex = d.revenue,
                             !.previous_demands_before_nonconvex = Some(d.demands),
                             !.revenue = Some(rev),
                             !.demands = DemandsOf(rev, d.prices),
                             !.dataset = column_stack(d.prices, rev)]
         IN  {Outcome(c.ds, Returned([status |-> "dataset transformed to non-convex",
                                      points_updated |-> Len(d.prices)]))
              : c \in check_dataset_convexity_convex_hull(d1)}

NoOp == [status |-> "No previous non-convex state to restore from."]

\* Mutant: the restore convexifies even when there is no snapshot.
restore_always_convexifies(d) ==
    IF ~IsNone(d.previous_revenue_before_nonconvex)
    THEN {Outcome(d, Returned([status |-> "dataset restored and made convex",
                               points_updated |-> Len(d.prices)]))}
    ELSE {Outcome(m.ds, Returned(NoOp)) : m \in make_convex(d)}

\* Dataset.restore_from_nonconvex
restore_from_nonconvex(d) ==
    IF ~IsNone(d.previous_revenue_before_nonconvex)
    THEN LET d1 == [d EXCEPT !.revenue = d.previous_revenue_before_nonconvex,
                             !.demands = Val(d.previous_demands_before_nonconvex),
                             !.dataset = column_stack(d.prices,
                                             Val(d.previous_revenue_before_nonconvex))]
         IN  {IF m.ret.exc # ""
              THEN m
              ELSE Outcome([m.ds EXCEPT !.previous_revenue_before_nonconvex = None,
                                        !.previous_demands_before_nonconvex = None],
                           Returned([status |-> "dataset restored and made convex",
                                     points_updated |-> Len(d.prices)]))
              : m \in make_convex(d1)}
    ELSE {Outcome(d, Returned(NoOp))}

-----------------------------------------------------------------------------
(* Dataset: the state machine.                                             *)

\* No PricingModel object exists in the Dataset specification.
NoPricingModel ==
    /\ alpha = None /\ beta = None /\ max_capacity = None /\ max_price = None
    /\ cost_per_unit = None /\ min_profit_margin = None /\ min_price = None
    /\ constraints = None /\ problem = None /\ current_model_type = None
    /\ price_value = None /\ problem_status = None /\ problem_value = None

Obs == PriceSet \X DemandSet
ObsLess(a, b) == a[1] < b[1] \/ (a[1] = b[1] /\ a[2] < b[2])

\* The observation sets tried: n distinct (price, demand) pairs in increasing order.
RECURSIVE Observations(_)
Observations(n) ==
    IF n = 0 THEN {<<>>}
    ELSE UNION {{Append(s, o) : o \in {x \in Obs : s = <<>> \/ ObsLess(s[Len(s)], x)}}
                : s \in Observations(n - 1)}

SetDS(d) ==
    /\ prices' = d.prices
    /\ demands' = d.demands
    /\ revenue' = d.revenue
    /\ dataset' = d.dataset
    /\ hull_points' = d.hull_points
    /\ hull_revenue' = d.hull_revenue
    /\ curvature' = d.curvature
    /\ previous_revenue_before_nonconvex' = d.previous_revenue_before_nonconvex
    /\ previous_demands_before_nonconvex' = d.previous_demands_before_nonconvex


DatasetInit ==
    \E n \in 1..MaxPts : \E obs \in Observations(n) :
        LET d == NewDataset([i \in 1..n |-> obs[i][1]], [i \in 1..n |-> obs[i][2]])
        IN  /\ prices = d.prices
            /\ demands = d.demands
            /\ revenue = d.revenue
            /\ dataset = d.dataset
            /\ hull_points = d.hull_points
            /\ hull_revenue = d.hull_revenue
            /\ curvature = d.curvature
            /\ previous_revenue_before_nonconvex = d.previous_revenue_before_nonconvex
            /\ previous_demands_before_nonconvex = d.previous_demands_before_nonconvex

InitDataset ==
    /\ DatasetInit
    /\ NoPricingModel
    /\ hist = <<>>
    /\ trail = <<>>
    /\ ret = Returned(None)

\* One more call on the Dataset: the state before it and its name are recorded.
DatasetCall(name) ==
    /\ Len(hist) < MaxOps
    /\ hist' = Append(hist, name)
    /\ trail' = Append(trail, DS)

Becomes(o) == SetDS(o.ds) /\ ret' = o.ret /\ UNCHANGED pmVars

CheckDatasetConvexity ==
    /\ DatasetCall("check_dataset_convexity_convex_hull")
    /\ \E o \in check_dataset_convexity_convex_hull(DS) : Becomes(o)

MakeConvex ==
    /\ DatasetCall("make_convex")
    /\ \E o \in make_convex(DS) : Becomes(o)

MakeNonconvex ==
    /\ DatasetCall("make_nonconvex")
    /\ \E a \in Amplitudes : \E f \in FrequencyFactors :
         \E o \in make_nonconvex(DS, a, f) : Becomes(o)

RestoreFromNonconvex ==
    /\ DatasetCall("restore_from_nonconvex")
    /\ \E o \in restore_from_nonconvex(DS) : Becomes(o)

NextDataset ==
    \/ CheckDatasetConvexity
    \/ MakeConvex
    \/ MakeNonconvex
    \/ RestoreFromNonconvex

SpecDataset == InitDataset /\ [][NextDataset]_vars

-----------------------------------------------------------------------------
(* Claims about the Dataset.                                               *)

CHECK == "check_dataset_convexity_convex_hull"

\* The last k calls were exactly these.
Ends(calls) ==
    /\ Len(hist) >= Len(calls)
    /\ \A i \in 1..Len(calls) : hist[Len(hist) - Len(calls) + i] = calls[i]

\* The object as it was before the k-th call from the end.
Before(k) == trail[Len(trail) - k + 1]

ApproxEq(a, b) == LeTol(a, b) /\ LeTol(b, a)

\* Two revenue arrays equal within 1e-8.
SameRevenue(r1, r2) ==
    /\ ~IsNone(r1) /\ ~IsNone(r2)
    /\ Len(Val(r1)) = Len(Val(r2))
    /\ \A i \in 1..Len(Val(r1)) : ApproxEq(Val(r1)[i], Val(r2)[i])

DistinctPrices(d) ==
    \A i, j \in 1..Len(d.prices) : i # j => d.prices[i] # d.prices[j]

HasSnapshot(d) == ~IsNone(d.previous_revenue_before_nonconvex)

\* C4 (as claimed): make_nonconvex, restore_from_nonconvex, make_convex on a
\* dataset D with a computable hull leaves the revenue that make_convex
\* applied to D itself produces.
C4_RoundTripEqualsMakeConvex ==
    (/\ Ends(<<"make_nonconvex", "restore_from_nonconvex", "make_convex">>)
     /\ HullComputable(Points(Before(3)))
     /\ ret.exc = "")
    => \E o \in make_convex(Before(3)) :
            o.ret.exc = "" /\ SameRevenue(revenue, o.ds.revenue)

\* C5 (as claimed): on a dataset with a computable hull a second make_convex
\* leaves the revenue of the first.
C5_MakeConvexIdempotent ==
    (/\ Ends(<<"make_convex", "make_convex">>)
     /\ HullComputable(Points(Before(2))))
    => (ret.exc = "" /\ SameRevenue(revenue, pre.revenue))

\* What a re-run of the convexity check reports in the current state.
Recheck == check_dataset_convexity_convex_hull(DS)

ReportsConvex(o) == ~IsNone(o.ret.val) /\ Val(o.ret.val).is_convex

C7_SnapshotSingleUse ==
    (/\ Ends(<<"make_nonconvex", "restore_from_nonconvex", "restore_from_nonconvex">>)
     /\ HasSnapshot(Before(2)))
    => /\ ~HasSnapshot(pre)
       /\ ret = Returned(NoOp)
       /\ DS = pre

\* C8: a restore on a Dataset that holds no snapshot returns the no-op status
\* and leaves every field of the object as it was.
C8_RestoreWithoutSnapshotIsNoOp ==
    (Ends(<<"restore_from_nonconvex">>) /\ ~HasSnapshot(pre))
    => (ret = Returned(NoOp) /\ DS = pre)

\* A restore after the snapshot was consumed, on an object whose hull is stored.
C8_Witness ==
    /\ Ends(<<"make_nonconvex", "restore_from_nonconvex", "restore_from_nonconvex">>)
    /\ ~HasSnapshot(pre)
    /\ ~IsNone(hull_points)
    /\ ret = Returned(NoOp)

HullFields(d) == <<d.hull_points, d.hull_revenue, d.curvature>>

\* C9: when the hull cannot be computed the check returns None and
\* hull_points, hull_revenue and the verdict keep their values; the same holds
\* of the check that make_nonconvex runs after the perturbation.
C9_FailedCheckKeepsHull ==
    /\ (Ends(<<CHECK>>) /\ ~HullComputable(Points(pre)))
        => (ret = Returned(None) /\ HullFields(DS) = HullFields(pre))
    /\ (Ends(<<"make_nonconvex">>) /\ ret.exc = "" /\ ~HullComputable(Points(DS)))
        => HullFields(DS) = HullFields(pre)

\* A stored hull, a make_convex that collapses the points onto one line, a failed check.
C9_Witness ==
    /\ Ends(<<"make_convex", CHECK>>)
    /\ ~HullComputable(Points(pre))
    /\ ~IsNone(hull_points)
    /\ ret = Returned(None)

Mutators == {"make_convex", "make_nonconvex", "restore_from_nonconvex"}

\* revenue and demands are arrays with one entry per price.
ArraysIntact(d) ==
    /\ ~IsNone(d.revenue)
    /\ Len(Val(d.revenue)) = Len(d.prices)
    /\ Len(d.demands) = Len(d.prices)

\* C11 (as claimed): on a Dataset whose hull cannot be computed, make_convex,
\* make_nonconvex and restore_from_nonconvex return a result (no exception
\* leaves the call) and revenue and demands stay arrays of the original length.
C11_UncomputableHullIsHandled ==
    (/\ LastIs(Mutators)
     /\ ArraysIntact(pre)
     /\ ~HullComputable(Points(pre)))
    => (ret.exc = "" /\ ArraysIntact(DS))

\* The stored hull vertices are points of the current (price, revenue) matrix.
HullOfCurrent(d) ==
    \A k \in 1..Len(Val(d.hull_points)) : Val(d.hull_points)[k] \in Points(d)

StrictlyIncreasingPrices(hp) == \A k \in 1..(Len(hp) - 1) : hp[k][1] < hp[k + 1][1]

\* C21 (as claimed): whenever hull_points is present, every vertex in it is one
\* of the current (price, revenue) points and the vertex prices are strictly
\* increasing.
C21_HullIsOfCurrentObservations ==
    ~IsNone(hull_points) =>
        /\ HullOfCurrent(DS)
        /\ StrictlyIncreasingPrices(Val(hull_points))

\* The vertices of the upper boundary of the hull, by increasing price.
UpperHull(S) == SortPts({P \in S : OnChain(P, S, 1)})

\* C22 (as claimed): after a check that returns a result, hull_revenue[i] is
\* the height of the upper boundary of the hull at prices[i], and is_convex
\* holds exactly when every revenue[i] <= hull_revenue[i] + 1e-8.
C22_HullRevenueIsUpperEnvelope ==
    (Ends(<<CHECK>>) /\ ~IsNone(ret.val)) =>
        /\ \A i \in 1..Len(prices) :
                Val(hull_revenue)[i] = interp(prices[i], UpperHull(Points(DS)))
        /\ Val(ret.val).is_convex
             = \A i \in 1..Len(prices) : LeTol(Val(revenue)[i], Val(hull_revenue)[i])

\* The object d with the arrays of the object `from`.
Rebased(d, from) ==
    [d EXCEPT !.revenue = from.revenue, !.demands = from.demands, !.dataset = from.dataset]

\* The step is a call of the method `name`.
IsCall(name) == hist' = Append(hist, name)

\* The snapshot over one call: a make_nonconvex that applies its perturbation
\* sets it, a restore_from_nonconvex leaves none, nothing else touches it.
SnapshotStep ==
    /\ (IsCall("make_nonconvex") /\ ret'.exc = "") =>
          /\ previous_revenue_before_nonconvex' = revenue
          /\ previous_demands_before_nonconvex' = Some(demands)
    /\ (IsCall("make_nonconvex") /\ ret'.exc # "") =>
          UNCHANGED <<previous_revenue_before_nonconvex, previous_demands_before_nonconvex>>
    /\ IsCall("restore_from_nonconvex") =>
          /\ previous_revenue_before_nonconvex' = None
          /\ previous_demands_before_nonconvex' = None
    /\ (IsCall("make_convex") \/ IsCall(CHECK)) =>
          UNCHANGED <<previous_revenue_before_nonconvex, previous_demands_before_nonconvex>>

\* After two perturbations the restore starts from the arrays the first one left.
RestoresSecondSnapshot ==
    (Ends(<<"make_nonconvex", "make_nonconvex", "restore_from_nonconvex">>) /\ ret.exc = "") =>
        \E o \in make_convex(Rebased(pre, Before(2))) :
            revenue = o.ds.revenue /\ demands = o.ds.demands

\* C25 (as claimed): the snapshot is one slot holding the revenue and demand
\* arrays as they were just before the most recent make_nonconvex, so after
\* two perturbations the restore starts from the state the first one left;
\* the slot is filled exactly from a perturbation to the next restore.
C25_SnapshotSingleSlot ==
    /\ ~HasSnapshot(DS)
    /\ [](RestoresSecondSnapshot)
    /\ [][SnapshotStep]_vars

-----------------------------------------------------------------------------
(* Claims about the diagnostics of the PricingModel.                       *)

InState(type) == current_model_type = Some(type)

SignName(x) == IF RSign(x) < 0 THEN "CONCAVE" ELSE IF RSign(x) > 0 THEN "CONVEX" ELSE "LINEAR"

\* C12 (as claimed): check_convexity_hessian reports the second derivative of
\* the active objective, -2*beta in the concave state and +2*beta in the
\* convex state, and its result follows the sign of that value.
C12_HessianOfActiveObjective ==
    (LastIs({"check_convexity_hessian"}) /\ ret.exc = "") =>
        /\ InState("concave") =>
             /\ ret.val.hessian_value = RMul(RInt(-2), beta)
             /\ ret.val.result = SignName(RMul(RInt(-2), beta))
        /\ InState("convex") =>
             /\ ret.val.hessian_value = RMul(RInt(2), beta)
             /\ ret.val.result = SignName(RMul(RInt(2), beta))

\* C13 (as claimed): for beta > 0 check_convexity_curve_dcp reports the
\* curvature of the objective of the current state, CONCAVE in the concave
\* state, CONVEX in the convex state, neither in the non-convex state, and
\* is_dcp_compliant tells whether the stored problem is DCP (false when unbuilt).
C13_CurvatureOfCurrentObjective ==
    (LastIs({"check_convexity_curve_dcp"}) /\ ret.exc = "" /\ RSign(beta) > 0) =>
        /\ InState("concave") => ret.val.curvature = "CONCAVE"
        /\ InState("convex") => ret.val.curvature = "CONVEX"
        /\ InState("nonconvex_nonconcave") => ret.val.curvature \notin {"CONCAVE", "CONVEX"}
        /\ ret.val.is_dcp_compliant = (~IsNone(problem) /\ is_dcp(Val(problem)))

\* C20 (as claimed): check_convexity_hessian returns a result for every beta
\* and classifies the second derivative -2*beta by its sign: negative CONCAVE,
\* positive CONVEX, zero LINEAR.
C20_HessianClassifiesEverySign ==
    LastIs({"check_convexity_hessian"}) =>
        /\ ret.exc = ""
        /\ ret.val.result = SignName(RMul(RInt(-2), beta))
        /\ ret.val.is_concave = (RSign(beta) > 0)
        /\ ret.val.is_convex = (RSign(beta) < 0)

\* C14: in every built state with beta # 0 the two diagnostics agree: one
\* reports CONCAVE exactly when the other does, and CONVEX exactly when the
\* other does.  (A diagnostic changes nothing, so the state after one of them
\* is the state both are asked about.)
C14_DiagnosticsAgree ==
    (LastIs(Diagnostics) /\ ~IsNone(problem) /\ RSign(beta) # 0) =>
        LET h == HessianInfo(beta)
            c == CurveInfo(beta, problem)
        IN  /\ ret \in {h, c}
            /\ PM = pre
            /\ h.exc = "" /\ c.exc = ""
            /\ (h.val.result = "CONCAVE") <=> (c.val.curvature = "CONCAVE")
            /\ (h.val.result = "CONVEX") <=> (c.val.curvature = "CONVEX")

\* Both diagnostics asked in the convex state of a model with beta > 0.
C14_Witness ==
    /\ Len(hist) = 3
    /\ hist[1] = "build_convex_model"
    /\ hist[2] = "check_convexity_hessian"
    /\ hist[3] = "check_convexity_curve_dcp"
    /\ RSign(beta) > 0
    /\ ret.val.curvature = "CONCAVE"
    /\ HessianInfo(beta).val.result = "CONCAVE"

-----------------------------------------------------------------------------
(* PricingModel with a client that reassigns parameters after construction, *)
(* as run_workflow does with `model.max_price = Params.MAX_PRICE`.          *)

\* The values a client assigns, per attribute.
Assigned ==
    [alpha |-> {1000}, beta |-> {1, -1}, max_capacity |-> {900},
     max_price |-> {200, MAX_PRICE}, cost_per_unit |-> {10}]

\* PricingModel() reads the configuration: there is one initial object.
InitConfigured ==
    /\ Init
    /\ alpha = RInt(ALPHA)
    /\ beta = RInt(BETA)
    /\ max_capacity = RInt(MAX_CAPACITY)
    /\ max_price = RInt(MAX_PRICE)
    /\ cost_per_unit = RInt(COST_PER_UNIT)

\* model.<attribute> = v: the attribute alone changes; min_price and the
\* constraint list were computed by __init__ and are not recomputed.
Assign ==
    /\ Call("assign")
    /\ \/ \E v \in Assigned.alpha : alpha' = RInt(v) /\ UNCHANGED <<beta, max_capacity, max_price, cost_per_unit>>
       \/ \E v \in Assigned.beta : beta' = RInt(v) /\ UNCHANGED <<alpha, max_capacity, max_price, cost_per_unit>>
       \/ \E v \in Assigned.max_capacity : max_capacity' = RInt(v) /\ UNCHANGED <<alpha, beta, max_price, cost_per_unit>>
       \/ \E v \in Assigned.max_price : max_price' = RInt(v) /\ UNCHANGED <<alpha, beta, max_capacity, cost_per_unit>>
       \/ \E v \in Assigned.cost_per_unit : cost_per_unit' = RInt(v) /\ UNCHANGED <<alpha, beta, max_capacity, max_price>>
    /\ ret' = Returned(None)
    /\ UNCHANGED <<min_profit_margin, min_price, constraints, problem, current_model_type,
                   price_value, problem_status, problem_value, dsVars>>

NextAssign == Assign \/ Next

SpecAssign == InitConfigured /\ [][NextAssign]_vars

-----------------------------------------------------------------------------
(* Claims about the solved optimum and the feasible region.                *)

\* The feasible region the parameters of the object describe.
RegionOfParameters == ConstraintList(alpha, beta, max_capacity, max_price, min_price)

InRegion(p, c) ==
    LET demand == RSub(c.alpha, RMul(c.beta, p))
    IN  /\ RLe(c.min_price, p) /\ RLe(p, c.max_price)
        /\ RLe(RInt(0), demand) /\ RLe(demand, c.max_capacity)

\* alpha / (2 * beta), the maximum of alpha*p - beta*p^2 without constraints.
Unconstrained == RDiv(alpha, RMul(RInt(2), beta))

SolvedConcave ==
    /\ LastIs(Solves)
    /\ pre.current_model_type = Some("concave")
    /\ ret.exc = ""
    /\ Present(ret.val)

\* C15 (as claimed): for beta > 0 and a non-empty feasible region, solve after
\* the concave build returns a price inside the region of the model's
\* parameters that maximizes alpha*p - beta*p^2 there (the unconstrained
\* maximum clamped to the region, so max_price when max_price is feasible and
\* below alpha/(2*beta)), and the demand returned is alpha - beta*p.
C15_ConcaveOptimumInRegion ==
    (SolvedConcave /\ RSign(beta) > 0 /\ Feasible(RegionOfParameters)) =>
        LET p == Val(ret.val[1])
            R == RegionOfParameters
        IN  /\ InRegion(p, R)
            /\ p = Clamp(Unconstrained, Lo(R), Hi(R))
            /\ (RLt(max_price, Unconstrained) /\ InRegion(max_price, R)) => p = max_price
            /\ ret.val[3] = Some(RSub(alpha, RMul(beta, p)))

\* alpha and beta as the objective of a stored problem uses them.
ObjectiveAlpha(pr) == IF pr.sense = "Minimize" THEN RNeg(pr.a1) ELSE pr.a1
ObjectiveBeta(pr) == IF pr.sense = "Minimize" THEN pr.a2 ELSE RNeg(pr.a2)

\* C16 (as claimed): the problem a build call stores has the constraints
\* demand = alpha - beta*price, demand <= capacity, min_price <= price <=
\* max_price, demand >= 0 with the parameter values of the moment of the
\* build (min_price derived from the cost of that moment), and the objective
\* and the constraints of a stored problem use the same alpha and beta.
C16_ConstraintsOfBuildTime ==
    /\ LastIs(Builds) =>
         Val(problem).constraints =
            ConstraintList(alpha, beta, max_capacity, max_price,
                           RDiv(cost_per_unit, RSub(RInt(1), min_profit_margin)))
    /\ ~IsNone(problem) =>
         /\ ObjectiveAlpha(Val(problem)) = Val(problem).constraints.alpha
         /\ ObjectiveBeta(Val(problem)) = Val(problem).constraints.beta

ConvexBuilds == {"build_convex_model", "restore_convex_model"}

\* The last four calls: one formulation built and solved, then the other.
SolvedBothFormulations ==
    /\ Len(hist) >= 4
    /\ LET n == Len(hist)
       IN  /\ hist[n - 2] \in Solves /\ hist[n] \in Solves
           /\ \/ hist[n - 3] = "_build_concave_model" /\ hist[n - 1] \in ConvexBuilds
              \/ hist[n - 3] \in ConvexBuilds /\ hist[n - 1] = "_build_concave_model"

\* The object after the first of the two solves.
FirstSolved == Before(2)

\* C17: with the same parameters, when the solves of the concave and of the
\* convex formulation both return an optimum, the optimal price and the
\* implied demand are the same and the objective values are each other's
\* negation; when the region is empty neither returns an optimum.
C17_ConvexIsNegatedConcave ==
    SolvedBothFormulations =>
        /\ (FirstSolved.problem_status = Some("optimal") /\ Present(ret.val)) =>
             /\ ret.val[1] = FirstSolved.price_value
             /\ Val(ret.val[2]) = RNeg(Val(FirstSolved.problem_value))
             /\ ret.val[3] = Some(RSub(alpha, RMul(beta, Val(FirstSolved.price_value))))
        /\ FirstSolved.problem_status = Some("infeasible") => Absent(ret.val)
        /\ FirstSolved.problem_status = Some("optimal") => problem_status # Some("infeasible")

\* Concave solved at the unconstrained optimum, then convex solved to the same price.
C17_Witness ==
    /\ hist = <<"_build_concave_model", "solve_concave", "build_convex_model", "solve_convex">>
    /\ RSign(beta) > 0
    /\ FirstSolved.problem_status = Some("optimal")
    /\ Present(ret.val)
    /\ ret.val[1] = Some(RDiv(alpha, RMul(RInt(2), beta)))
    /\ RSign(Val(ret.val[2])) < 0

-----------------------------------------------------------------------------
(* DatasetConvexityChecker, src/src/core/check_data_convex.py: the object  *)
(* holds prices and demands (integers here); check_curvature is a function *)
(* of them.                                                                *)

MaxObs == 4
MaxChecks == 2

CheckerPrices == 1..4
CheckerDemands == {1, 3}

\* The default observations of run_workflow.
SamplePrices == <<5, 10, 15, 20, 25, 30, 35>>
SampleDemands == <<115, 105, 92, 70, 50, 30, 10>>

\* np.diff
diff(s) == IF Len(s) < 2 THEN <<>> ELSE [i \in 1..(Len(s) - 1) |-> s[i + 1] - s[i]]
RDiff(s) == IF Len(s) < 2 THEN <<>> ELSE [i \in 1..(Len(s) - 1) |-> RSub(s[i + 1], s[i])]

\* np.argsort(prices): the index orders that put the prices in nondecreasing
\* order; the default sort is not stable, so equal prices come in any order.
RECURSIVE argsort(_, _)
argsort(ps, S) ==
    IF S = {} THEN {<<>>}
    ELSE UNION {{<<i>> \o t : t \in argsort(ps, S \ {i})}
                : i \in {j \in S : \A k \in S : ps[j] <= ps[k]}}

CANNOT == "Cannot calculate curvature due to insufficient distinct price changes"
INSUFFICIENT == "Insufficient data for curvature analysis (need at least 2 slopes)"
NO_POINTS == "Insufficient data for curvature analysis (no curvature points)"
CONCAVE == "Concave (Perfect Hill Shape) - Maximization"
CONVEX == "Convex (Perfect Bowl Shape) - Minimization"
MIXED == "Non-Convex (Mixed/Bumpy)"

\* f"{percentage:.2%}": the fraction n/total as a percentage with two decimals
\* (round half to even).
Percent(n, total) ==
    LET q == (n * 10000) \div total
        rem == (n * 10000) % total
        h == IF 2 * rem > total \/ (2 * rem = total /\ q % 2 = 1) THEN q + 1 ELSE q
        frac == h % 100
    IN  ToString(h \div 100) \o "." \o (IF frac < 10 THEN "0" ELSE "") \o ToString(frac) \o "%"

MostlyConcave(n, total) == "Mostly Concave (" \o Percent(n, total) \o " points <= 0)"
MostlyConvex(n, total) == "Mostly Convex (" \o Percent(n, total) \o " points >= 0)"

\* dy[mask] / dx[mask]
Slopes(dx, dy) ==
    LET keep(i) == dx[i] # 0
        kept == SelectSeq([i \in 1..Len(dx) |-> i], keep)
    IN  [k \in 1..Len(kept) |-> Rat(dy[kept[k]], dx[kept[k]])]

AllNonPositive(c) == \A i \in 1..Len(c) : RSign(c[i]) <= 0
AllNonNegative(c) == \A i \in 1..Len(c) : RSign(c[i]) >= 0

\* Mutant: the convex test comes first.
VerdictConvexFirst(c) ==
    IF AllNonNegative(c) THEN CONVEX
    ELSE IF AllNonPositive(c) THEN CONCAVE
    ELSE MIXED

\* Mutant: the Mostly Convex test comes before the Mostly Concave one.
VerdictMostlyConvexFirst(c) ==
    LET total == Len(c)
        num_concave == Cardinality({i \in 1..total : RSign(c[i]) <= 0})
        num_convex == Cardinality({i \in 1..total : RSign(c[i]) >= 0})
    IN  IF AllNonPositive(c) THEN CONCAVE
        ELSE IF AllNonNegative(c) THEN CONVEX
        ELSE IF 5 * num_convex >= 4 * total THEN MostlyConvex(num_convex, total)
        ELSE IF 5 * num_concave >= 4 * total THEN MostlyConcave(num_concave, total)
        ELSE MIXED

\* Lines 49-64: the verdict for a curvature series.
Verdict(c) ==
    LET total == Len(c)
        num_concave == Cardinality({i \in 1..total : RSign(c[i]) <= 0})
        num_convex == Cardinality({i \in 1..total : RSign(c[i]) >= 0})
    IN  IF AllNonPositive(c) THEN CONCAVE
        ELSE IF AllNonNegative(c) THEN CONVEX
        ELSE IF 5 * num_concave >= 4 * total THEN MostlyConcave(num_concave, total)
        ELSE IF 5 * num_convex >= 4 * total THEN MostlyConvex(num_convex, total)
        ELSE MIXED

\* The curvature series of the observations taken in the order idx.
Curvature(ps, ds, idx) ==
    LET p == [i \in 1..Len(idx) |-> ps[idx[i]]]
        r == [i \in 1..Len(idx) |-> ps[idx[i]] * ds[idx[i]]]
    IN  RDiff(Slopes(diff(p), diff(r)))

NonZeroSteps(ps, idx) ==
    LET dx == diff([i \in 1..Len(idx) |-> ps[idx[i]]])
    IN  Cardinality({i \in 1..Len(dx) : dx[i] # 0})

\* Mutant: three slopes are needed.
check_curvature_needs_three_slopes(ps, ds) ==
    {IF NonZeroSteps(ps, idx) = 0 THEN Returned([curvature |-> CANNOT])
     ELSE IF NonZeroSteps(ps, idx) < 3 THEN Returned([curvature |-> INSUFFICIENT])
     ELSE Returned([curvature |-> Verdict(Curvature(ps, ds, idx))])
     : idx \in argsort(ps, 1..Len(ps))}

\* DatasetConvexityChecker.check_curvature: the results it can return.
check_curvature(ps, ds) ==
    {IF NonZeroSteps(ps, idx) = 0 THEN Returned([curvature |-> CANNOT])
     ELSE IF NonZeroSteps(ps, idx) < 2 THEN Returned([curvature |-> INSUFFICIENT])
     ELSE IF Len(Curvature(ps, ds, idx)) = 0 THEN Returned([curvature |-> NO_POINTS])
     ELSE Returned([curvature |-> Verdict(Curvature(ps, ds, idx))])
     : idx \in argsort(ps, 1..Len(ps))}

\* The checker object as one value.
Checker == [prices |-> prices, demands |-> demands]

\* Demands for the default prices: the default ones, the default ones in
\* reverse (demand rising with price) and a nearly constant demand (revenue
\* linear in the price but for the last two observations), each with some of
\* the demands raised.
Bump == 20
Reverse(s) == [i \in 1..Len(s) |-> s[Len(s) + 1 - i]]
FlatDemands == <<10, 10, 10, 10, 10, 11, 11>>
BumpedDemands ==
    {[i \in 1..Len(base) |-> base[i] + (IF i \in S THEN Bump ELSE 0)]
     : base \in {SampleDemands, Reverse(SampleDemands), FlatDemands},
       S \in SUBSET (1..Len(SampleDemands))}

\* DatasetConvexityChecker.__init__ on up to MaxObs observations in any
\* order, or on the default prices of the workflow with one of BumpedDemands.
InitChecker ==
    /\ \/ \E n \in 0..MaxObs :
             /\ prices \in [1..n -> CheckerPrices]
             /\ demands \in [1..n -> CheckerDemands]
       \/ prices = SamplePrices /\ demands \in BumpedDemands
    /\ revenue = None /\ dataset = <<>>
    /\ hull_points = None /\ hull_revenue = None /\ curvature = None
    /\ previous_revenue_before_nonconvex = None
    /\ previous_demands_before_nonconvex = None
    /\ NoPricingModel
    /\ hist = <<>>
    /\ trail = <<>>
    /\ ret = Returned(None)

CheckCurvature ==
    /\ Len(hist) < MaxChecks
    /\ hist' = Append(hist, "check_curvature")
    /\ trail' = Append(trail, Checker)
    /\ ret' \in check_curvature(prices, demands)
    /\ UNCHANGED <<pmVars, dsVars>>

NextChecker == CheckCurvature

SpecChecker == InitChecker /\ [][NextChecker]_vars

-----------------------------------------------------------------------------
(* Claims about the classifier.                                            *)

Checked == LastIs({"check_curvature"})

\* The curvature series the input can give (one per order of equal prices).
SeriesOfInput == {Curvature(prices, demands, idx) : idx \in argsort(prices, 1..Len(prices))}

RevenueOfInput == [i \in 1..Len(prices) |-> prices[i] * demands[i]]

IsSample == prices = SamplePrices /\ demands = SampleDemands

\* C18: when the curvature series of the input is non-empty and uniformly
\* <= 0 check_curvature returns the Concave verdict, when it is uniformly >= 0
\* and not uniformly <= 0 the Convex verdict; the default observations have
\* revenue [575, 1050, 1380, 1400, 1250, 900, 350] and the verdict Concave.
C18_UniformCurvatureVerdict ==
    Checked =>
        /\ ret.exc = ""
        /\ (\A c \in SeriesOfInput : Len(c) > 0 /\ AllNonPositive(c))
             => ret.val.curvature = CONCAVE
        /\ (\A c \in SeriesOfInput : Len(c) > 0 /\ AllNonNegative(c) /\ ~AllNonPositive(c))
             => ret.val.curvature = CONVEX
        /\ IsSample =>
             /\ RevenueOfInput = <<575, 1050, 1380, 1400, 1250, 900, 350>>
             /\ \A c \in SeriesOfInput : Len(c) = 5 /\ \A i \in 1..5 : RSign(c[i]) < 0
             /\ ret.val.curvature = CONCAVE

\* The default observations, classified.
C18_Witness ==
    /\ Checked
    /\ IsSample
    /\ ret.val.curvature = CONCAVE

Indeterminate == {CANNOT, INSUFFICIENT, NO_POINTS}

ShapeVerdicts ==
    {CONCAVE, CONVEX, MIXED}
    \cup {MostlyConcave(n, total) : n \in 0..Len(SamplePrices), total \in 1..Len(SamplePrices)}
    \cup {MostlyConvex(n, total) : n \in 0..Len(SamplePrices), total \in 1..Len(SamplePrices)}

\* The slopes with a non-zero price step: one between each two neighbouring
\* distinct prices.
SlopesOfInput ==
    LET distinct == Cardinality({prices[i] : i \in 1..Len(prices)})
    IN  IF distinct = 0 THEN 0 ELSE distinct - 1

\* C19: check_curvature raises for no input of equal lengths; it returns an
\* indeterminate verdict exactly when fewer than 2 slopes with a non-zero price
\* step remain, and a shape verdict otherwise.
C19_IndeterminateNotRaised ==
    Checked =>
        /\ ret.exc = ""
        /\ ret.val.curvature \in Indeterminate <=> SlopesOfInput < 2
        /\ ret.val.curvature \notin Indeterminate => ret.val.curvature \in ShapeVerdicts

\* Several observations at one price.
C19_Witness ==
    /\ Checked
    /\ Len(prices) >= 2
    /\ \A i \in 1..Len(prices) : prices[i] = prices[1]
    /\ ret = Returned([curvature |-> CANNOT])

\* The series has a strictly positive and a strictly negative entry.
BothSigns(c) ==
    /\ \E i \in 1..Len(c) : RSign(c[i]) > 0
    /\ \E i \in 1..Len(c) : RSign(c[i]) < 0

CountNonPositive(c) == Cardinality({i \in 1..Len(c) : RSign(c[i]) <= 0})
CountNonNegative(c) == Cardinality({i \in 1..Len(c) : RSign(c[i]) >= 0})

\* At least the tolerance 0.80 of total.
ReachesTolerance(n, total) == 100 * n >= 80 * total

\* The verdict the tolerance rule gives a series of both signs.
ByTolerance(c) ==
    IF ReachesTolerance(CountNonPositive(c), Len(c))
    THEN MostlyConcave(CountNonPositive(c), Len(c))
    ELSE IF ReachesTolerance(CountNonNegative(c), Len(c))
    THEN MostlyConvex(CountNonNegative(c), Len(c))
    ELSE MIXED

\* C23: for a curvature series with a strictly positive and a strictly
\* negative entry check_curvature returns Mostly Concave with the percentage
\* when the fraction of entries <= 0 is at least 0.80 (also when the fraction
\* of entries >= 0 reaches 0.80 too), otherwise Mostly Convex with the
\* percentage when the fraction of entries >= 0 is at least 0.80, otherwise
\* the Mixed verdict.
C23_ToleranceVerdicts ==
    (Checked /\ \A c \in SeriesOfInput : BothSigns(c)) =>
        /\ ret.exc = ""
        /\ \E c \in SeriesOfInput : ret.val.curvature = ByTolerance(c)
        /\ ret.val.curvature \notin {CONCAVE, CONVEX}

\* Three zero entries, a positive and a negative one: both fractions are 0.80.
C23_Witness ==
    /\ Checked
    /\ \A c \in SeriesOfInput :
          /\ BothSigns(c)
          /\ ReachesTolerance(CountNonPositive(c), Len(c))
          /\ ReachesTolerance(CountNonNegative(c), Len(c))
    /\ ret.val.curvature = "Mostly Concave (80.00% points <= 0)"

\* The sequence with its observations i and j exchanged.
Exchanged(s, i, j) == [s EXCEPT ![i] = s[j], ![j] = s[i]]

\* C26 (as claimed): the verdict is that of the multiset of observations:
\* with two observations exchanged in the input (every permutation is a
\* product of exchanges) check_curvature returns the same verdict, equal
\* prices with different demands included.
C26_VerdictIgnoresInputOrder ==
    Checked =>
        \A i, j \in 1..Len(prices) :
            \A r \in check_curvature(Exchanged(prices, i, j), Exchanged(demands, i, j)) :
                r = ret

-----------------------------------------------------------------------------
(* run_workflow, src/src/core/workflow.py (run_core_logic is the same       *)
(* sequence without the plots): one action per step of the function.  hist *)
(* holds the steps taken; an exception that leaves a step ends the run.    *)

\* info['is_convex'] on the value the check returned: None is not subscriptable.
Subscript(r) == IF r.exc = "" /\ IsNone(r.val) THEN Raised("TypeError") ELSE r

\* The run is past the step `name` and no exception has ended it.
At(name) == hist # <<>> /\ hist[Len(hist)] = name /\ ret.exc = ""

Step(name, obj) ==
    /\ hist' = Append(hist, name)
    /\ trail' = Append(trail, obj)

\* Line 24: dataset = Dataset(prices, demands) on the loaded observations.
InitWorkflow == InitDataset

\* Step 2, lines 25-31.
WfCheckConvexity ==
    /\ hist = <<>>
    /\ Step("step2", DS)
    /\ \E o \in check_dataset_convexity_convex_hull(DS) :
          SetDS(o.ds) /\ ret' = Subscript(o.ret)
    /\ UNCHANGED pmVars

\* `if not convexity_info['is_convex']`, line 34.
NeedsTransformation == At("step2") /\ ~Val(ret.val).is_convex

\* Steps 2a and 2b, lines 34-49.
WfMakeConvex ==
    /\ NeedsTransformation
    /\ Step("step2a", DS)
    /\ \E m \in make_convex(DS) :
          IF m.ret.exc # ""
          THEN SetDS(m.ds) /\ ret' = m.ret
          ELSE \E c \in check_dataset_convexity_convex_hull(m.ds) :
                  SetDS(c.ds) /\ ret' = Subscript(c.ret)
    /\ UNCHANGED pmVars

\* The run reaches step 3.
ReachesBuild == (At("step2") /\ Val(ret.val).is_convex) \/ At("step2a")

\* Step 3, lines 53-55: PricingModel(), max_price assigned, _build_concave_model().
WfBuildModel ==
    /\ ReachesBuild
    /\ Step("step3", DS)
    /\ alpha' = RInt(ALPHA)
    /\ beta' = RInt(BETA)
    /\ max_capacity' = RInt(MAX_CAPACITY)
    /\ max_price' = RInt(MAX_PRICE)
    /\ cost_per_unit' = RInt(COST_PER_UNIT)
    /\ min_profit_margin' = MIN_PROFIT_MARGIN
    /\ min_price' = RDiv(cost_per_unit', RSub(RInt(1), min_profit_margin'))
    /\ constraints' = ConstraintList(alpha', beta', max_capacity', max_price', min_price')
    /\ problem' = Some(Problem("Maximize", alpha', RNeg(beta'), RInt(0), constraints'))
    /\ current_model_type' = Some("concave")
    /\ price_value' = None
    /\ problem_status' = None
    /\ problem_value' = None
    /\ ret' = Returned("revenue")
    /\ UNCHANGED dsVars

\* The two diagnostics and the subscripts of their results.
DiagnosticsOf(b, pr) == IF CurveInfo(b, pr).exc # "" THEN CurveInfo(b, pr) ELSE HessianInfo(b)

\* Step 4, lines 62-70.
WfDiagnostics ==
    /\ At("step3")
    /\ Step("step4", PM)
    /\ ret' = DiagnosticsOf(beta, problem)
    /\ UNCHANGED <<pmVars, dsVars>>

\* Step 5, lines 74-82.
WfSolveConcave ==
    /\ At("step4")
    /\ Step("step5", PM)
    /\ SolveBody
    /\ UNCHANGED dsVars

\* Steps 6 and 6a, lines 86-98.
WfBuildConvex ==
    /\ At("step5")
    /\ Step("step6", PM)
    /\ BuildConvexBody
    /\ ret' = DiagnosticsOf(beta, Some(ConvexProblem))
    /\ UNCHANGED dsVars

\* Step 7, line 102.
WfSolveConvex ==
    /\ At("step6")
    /\ Step("step7", PM)
    /\ SolveBody
    /\ UNCHANGED dsVars

\* Step 8, line 106.
WfBuildNonconvex ==
    /\ At("step7")
    /\ Step("step8", PM)
    /\ Store(NonconvexProblem, "nonconvex_nonconcave")
    /\ ret' = Returned("revenue")
    /\ UNCHANGED dsVars

\* Step 9, line 111.
WfRestoreConvex ==
    /\ At("step8")
    /\ Step("step9", PM)
    /\ BuildConvexBody
    /\ ret' = Returned(None)
    /\ UNCHANGED dsVars

NextWorkflow ==
    \/ WfCheckConvexity
    \/ WfMakeConvex
    \/ WfBuildModel
    \/ WfDiagnostics
    \/ WfSolveConcave
    \/ WfBuildConvex
    \/ WfSolveConvex
    \/ WfBuildNonconvex
    \/ WfRestoreConvex

SpecWorkflow == InitWorkflow /\ [][NextWorkflow]_vars

-----------------------------------------------------------------------------
(* Claims about the workflow.                                              *)

\* Step 2 has run on a dataset whose hull cannot be computed.
HullFailureAtStep2 == hist = <<"step2">> /\ ~HullComputable(Points(pre))

\* C24 (as claimed): when the check of step 2 signals a hull failure the run
\* is not ended by an error, the dataset is not treated as non-convex (no
\* transformation step) and the run goes on to the model build.
C24_HullFailureIsUnknown ==
    HullFailureAtStep2 =>
        /\ ret.exc = ""
        /\ ~NeedsTransformation
        /\ ReachesBuild

====
